---- MODULE Spec2Model ----
(***************************************************************************)
(* Serial-to-TCP bridge (Assets/Server/server_tcp.py).                     *)
(*                                                                         *)
(* The script is one sequential flow: open the serial port, create / bind  *)
(* / listen a TCP socket, accept one client, then forward every non-empty  *)
(* serial line to the client until an exception ends the loop, and close   *)
(* the serial port and the listening socket in a finally block.            *)
(*                                                                         *)
(* pc is the position of the script.  The environment supplies: the bytes  *)
(* every readline() returns, the outcome of every library call that can    *)
(* raise, the moment the client closes its end, and a KeyboardInterrupt,   *)
(* delivered while the script is in its setup or in the forwarding loop.   *)
(* The except handlers and the finally block are taken to run without a    *)
(* further interrupt, and close() and print() there are taken not to raise.*)
(***************************************************************************)
EXTENDS Integers, Sequences, FiniteSets, TLC

\* ---------------------------------------------------------------- bounds
\* longest byte string one readline() call returns
MaxRaw == 3
\* number of non-empty lines the serial source delivers in one run
MaxLines == 2

\* ----------------------------------------------------- bytes and strings
\* The bytes on the serial wire: 'a', space, line feed, and 0xFF, which is
\* not valid UTF-8.
Bytes == {97, 32, 10, 255}

\* bytes.decode('utf-8') on the ASCII range, one character per byte
CharOf == (97 :> "a") @@ (32 :> " ") @@ (10 :> "\n") @@ (13 :> "\r") @@ (9 :> "\t")

\* str.encode('utf-8') on the same characters
ByteOf == ("a" :> 97) @@ (" " :> 32) @@ ("\n" :> 10) @@ ("\r" :> 13) @@ ("\t" :> 9)

\* decode raises UnicodeDecodeError unless every byte is valid
Decodable(raw) == \A i \in 1..Len(raw) : raw[i] \in DOMAIN CharOf

Decode(raw) == [i \in 1..Len(raw) |-> CharOf[raw[i]]]

Encode(s) == [i \in 1..Len(s) |-> ByteOf[s[i]]]

\* the characters str.strip() removes
IsSpace(c) == c \in {" ", "\n", "\r", "\t"}

RECURSIVE LStrip(_)
LStrip(s) == IF s = <<>> THEN s
             ELSE IF IsSpace(Head(s)) THEN LStrip(Tail(s)) ELSE s

RECURSIVE RStrip(_)
RStrip(s) == IF s = <<>> THEN s
             ELSE IF IsSpace(s[Len(s)]) THEN RStrip(SubSeq(s, 1, Len(s) - 1)) ELSE s

NoStrip(s) == s

\* str.strip(): leading and trailing whitespace removed, inner kept
Strip(s) == RStrip(LStrip(s))

\* "if line:" - a str is truthy iff it is not empty
Truthy(l) == l # <<>>

FrameNoNewline(l) == Encode(l)

\* (line + '\n').encode('utf-8')
Frame(l) == Encode(l \o <<"\n">>)

\* What one readline() call can return with timeout=1: the bytes up to and
\* including the first line feed, or, when the timeout expires first, the
\* bytes that arrived so far (none, or the beginning of a line).
RawReads == UNION { { r \in [1..n -> Bytes] :
                        \A i \in 1..(n - 1) : r[i] # 10 } : n \in 0..MaxRaw }

EndsWithLF(raw) == raw # <<>> /\ raw[Len(raw)] = 10

\* the read returned nothing, or nothing but whitespace bytes
BlankRaw(raw) == \A i \in 1..Len(raw) : raw[i] \in {32, 10, 13, 9}

\* The frame the client is owed for a raw read, stated on the bytes read:
\* the bytes from the first to the last non-whitespace byte, followed by
\* one line feed.
Solid(raw) == {i \in 1..Len(raw) : raw[i] \notin {32, 10, 13, 9}}

Lo(raw) == CHOOSE i \in Solid(raw) : \A j \in Solid(raw) : i <= j

Hi(raw) == CHOOSE i \in Solid(raw) : \A j \in Solid(raw) : j <= i

OwedFrame(raw) == IF Solid(raw) = {} THEN <<10>>
                  ELSE SubSeq(raw, Lo(raw), Hi(raw)) \o <<10>>

\* ------------------------------------------------------------ exceptions
DisconnectErrors == {"ConnectionResetError", "BrokenPipeError"}

HandledOnlyReset(e) == e = "ConnectionResetError"

HandledAll(e) == TRUE

\* the two except clauses of the forwarding try
Handled(e) == e \in DisconnectErrors \/ e = "KeyboardInterrupt"

\* ----------------------------------------------------------------- state
VARIABLES pc,             \* position of the script
          arduino,        \* serial handle: "unopened", "open", "closed"
          server_socket,  \* "none", "created", "bound", "listening", "closed"
          conn,           \* client connection: "none", "open", "closed"
          line,           \* the variable line of the loop
          exc,            \* exception in flight, "none" when there is none
          cause,          \* the exception that ended the forwarding loop
          clientClosed,   \* the client has closed or reset its end
          midLine,        \* the last readline() stopped inside a line
          lastBlank,      \* the last readline() returned only whitespace
          readParity,     \* number of readline() calls, modulo 2
          owed,           \* per non-empty line read, the frame owed for it
          whole,          \* whole[i]: that read was one complete serial line
          sent,           \* the byte strings sendall() wrote, in order
          failed,         \* the byte strings whose sendall() raised
          echoes,         \* the lines printed by the echo
          openAttempts,   \* calls of serial.Serial(...)
          acceptCalls     \* calls of server_socket.accept()

vars == <<pc, arduino, server_socket, conn, line, exc, cause, clientClosed,
          midLine, lastBlank, readParity, owed, whole, sent, failed, echoes,
          openAttempts, acceptCalls>>

resources == <<arduino, server_socket, conn>>
history   == <<midLine, lastBlank, readParity, owed, whole, sent, failed, echoes>>
counters  == <<openAttempts, acceptCalls>>

SetupPcs == {"open", "open_failed", "socket", "bind", "listen", "accept"}
LoopPcs  == {"read", "send", "echo", "sleep"}
EndPcs   == {"exited", "done", "crashed"}

Init ==
    /\ pc = "open"
    /\ arduino = "unopened"
    /\ server_socket = "none"
    /\ conn = "none"
    /\ line = <<>>
    /\ exc = "none"
    /\ cause = "none"
    /\ clientClosed = FALSE
    /\ midLine = FALSE
    /\ lastBlank = FALSE
    /\ readParity = 0
    /\ owed = <<>>
    /\ whole = <<>>
    /\ sent = <<>>
    /\ failed = <<>>
    /\ echoes = <<>>
    /\ openAttempts = 0
    /\ acceptCalls = 0

\* An exception raised before the forwarding try: nothing catches it.
Crash(e) ==
    /\ pc' = "crashed"
    /\ exc' = e

\* An exception raised inside "with conn:": the with statement closes conn,
\* then the except clauses of the try are consulted.
Raise(e) ==
    /\ pc' = "except"
    /\ exc' = e
    /\ cause' = e
    /\ conn' = "closed"

\* ------------------------------------------------------------- the setup
OpenSerialOk ==
    /\ pc = "open"
    /\ openAttempts' = openAttempts + 1
    /\ arduino' = "open"
    /\ pc' = "socket"
    /\ UNCHANGED <<server_socket, conn, line, exc, cause, clientClosed,
                   history, acceptCalls>>

OpenSerialFail ==
    /\ pc = "open"
    /\ openAttempts' = openAttempts + 1
    /\ pc' = "open_failed"
    /\ UNCHANGED <<resources, line, exc, cause, clientClosed, history,
                   acceptCalls>>

OpenFailedFallThrough ==
    /\ pc = "open_failed"
    /\ pc' = "socket"
    /\ UNCHANGED <<resources, line, exc, cause, clientClosed, history, counters>>

\* except serial.SerialException: report, wait for a key, exit()
OpenFailedExit ==
    /\ pc = "open_failed"
    /\ pc' = "exited"
    /\ UNCHANGED <<resources, line, exc, cause, clientClosed, history, counters>>

CreateSocket ==
    /\ pc = "socket"
    /\ \/ /\ server_socket' = "created"
          /\ pc' = "bind"
          /\ UNCHANGED exc
       \/ /\ Crash("OSError")
          /\ UNCHANGED server_socket
    /\ UNCHANGED <<arduino, conn, line, cause, clientClosed, history, counters>>

Bind ==
    /\ pc = "bind"
    /\ \/ /\ server_socket' = "bound"
          /\ pc' = "listen"
          /\ UNCHANGED exc
       \/ /\ Crash("OSError")
          /\ UNCHANGED server_socket
    /\ UNCHANGED <<arduino, conn, line, cause, clientClosed, history, counters>>

Listen ==
    /\ pc = "listen"
    /\ \/ /\ server_socket' = "listening"
          /\ pc' = "accept"
          /\ UNCHANGED exc
       \/ /\ Crash("OSError")
          /\ UNCHANGED server_socket
    /\ UNCHANGED <<arduino, conn, line, cause, clientClosed, history, counters>>

Accept ==
    /\ pc = "accept"
    /\ acceptCalls' = acceptCalls + 1
    /\ \/ /\ conn' = "open"
          /\ pc' = "read"
          /\ UNCHANGED exc
       \/ /\ Crash("OSError")
          /\ UNCHANGED conn
    /\ UNCHANGED <<arduino, server_socket, line, cause, clientClosed, history,
                   openAttempts>>

\* Ctrl-C during the setup: KeyboardInterrupt is not a SerialException and
\* no try encloses the socket calls.
InterruptSetup ==
    /\ pc \in SetupPcs
    /\ Crash("KeyboardInterrupt")
    /\ UNCHANGED <<resources, line, cause, clientClosed, history, counters>>

\* --------------------------------------------------- the forwarding loop
\* line = arduino.readline().decode('utf-8').strip(), then "if line:"
ReadLine ==
    /\ pc = "read"
    /\ readParity' = 1 - readParity
    /\ \/ /\ Raise("SerialException")
          /\ UNCHANGED <<line, midLine, lastBlank, owed, whole>>
       \/ \E raw \in RawReads :
            /\ midLine' = IF raw = <<>> THEN midLine ELSE ~EndsWithLF(raw)
            /\ lastBlank' = BlankRaw(raw)
            /\ IF ~Decodable(raw)
               THEN /\ Raise("UnicodeDecodeError")
                    /\ UNCHANGED <<line, owed, whole>>
               ELSE /\ line' = Strip(Decode(raw))
                    /\ IF Truthy(line')
                       THEN /\ Len(owed) < MaxLines
                            /\ owed' = Append(owed, OwedFrame(raw))
                            /\ whole' = Append(whole, EndsWithLF(raw) /\ ~midLine)
                            /\ pc' = "send"
                       ELSE /\ pc' = "sleep"
                            /\ UNCHANGED <<owed, whole>>
                    /\ UNCHANGED <<exc, cause, conn>>
    /\ UNCHANGED <<arduino, server_socket, clientClosed, sent, failed, echoes,
                   counters>>

\* conn.sendall((line + '\n').encode('utf-8'))
Send ==
    /\ pc = "send"
    /\ \/ /\ sent' = Append(sent, Frame(line))
          /\ pc' = "echo"
          /\ UNCHANGED <<failed, exc, cause, conn>>
       \/ \E e \in DisconnectErrors \cup {"OSError"} :
            /\ e \in DisconnectErrors => clientClosed
            /\ failed' = Append(failed, Frame(line))
            /\ Raise(e)
            /\ UNCHANGED sent
    /\ UNCHANGED <<arduino, server_socket, line, clientClosed, midLine,
                   lastBlank, readParity, owed, whole, echoes, counters>>

EchoSkip ==
    /\ pc = "echo"
    /\ pc' = "sleep"
    /\ UNCHANGED <<resources, line, exc, cause, clientClosed, history, counters>>

\* print(f"-> Donnee envoyee: {line}")
Echo ==
    /\ pc = "echo"
    /\ \/ /\ echoes' = Append(echoes, line)
          /\ pc' = "sleep"
          /\ UNCHANGED <<exc, cause, conn>>
       \/ /\ Raise("UnicodeEncodeError")
          /\ UNCHANGED echoes
    /\ UNCHANGED <<arduino, server_socket, line, clientClosed, midLine,
                   lastBlank, readParity, owed, whole, sent, failed, counters>>

\* time.sleep(0.01), then the next iteration of "while True"
Sleep ==
    /\ pc = "sleep"
    /\ pc' = "read"
    /\ UNCHANGED <<resources, line, exc, cause, clientClosed, history, counters>>

\* Ctrl-C while the loop runs, at any statement of an iteration
InterruptLoop ==
    /\ pc \in LoopPcs
    /\ Raise("KeyboardInterrupt")
    /\ UNCHANGED <<arduino, server_socket, line, clientClosed, history, counters>>

\* The client closes or resets its end of the connection.  The script never
\* reads from conn, so it learns of this only through a later sendall().
ClientClose ==
    /\ pc \in LoopPcs
    /\ ~clientClosed
    /\ clientClosed' = TRUE
    /\ UNCHANGED <<pc, resources, line, exc, cause, history, counters>>

\* --------------------------------------------------- handlers and cleanup
\* except (ConnectionResetError, BrokenPipeError) / except KeyboardInterrupt:
\* a matching clause prints and drops the exception, anything else stays in
\* flight through the finally block.
Except ==
    /\ pc = "except"
    /\ exc' = IF Handled(exc) THEN "none" ELSE exc
    /\ pc' = "finally"
    /\ UNCHANGED <<resources, line, cause, clientClosed, history, counters>>

FinallyLeak ==
    /\ pc = "finally"
    /\ arduino' = "closed"
    /\ pc' = IF exc = "none" THEN "done" ELSE "crashed"
    /\ UNCHANGED <<server_socket, conn, line, exc, cause, clientClosed, history,
                   counters>>

FinallyReaccept ==
    /\ pc = "finally"
    /\ pc' = IF acceptCalls < 2 THEN "accept" ELSE "done"
    /\ UNCHANGED <<resources, line, exc, cause, clientClosed, history, counters>>

\* finally: arduino.close(); server_socket.close(); print; input
Finally ==
    /\ pc = "finally"
    /\ arduino' = "closed"
    /\ server_socket' = "closed"
    /\ pc' = IF exc = "none" THEN "done" ELSE "crashed"
    /\ UNCHANGED <<conn, line, exc, cause, clientClosed, history, counters>>

\* ------------------------------------------------------- specifications
\* the statements of the script
Step ==
    \/ OpenSerialOk
    \/ OpenSerialFail
    \/ OpenFailedExit
    \/ CreateSocket
    \/ Bind
    \/ Listen
    \/ Accept
    \/ ReadLine
    \/ Send
    \/ Echo
    \/ Sleep
    \/ Except
    \/ Finally

Next ==
    \/ Step
    \/ InterruptSetup
    \/ InterruptLoop
    \/ ClientClose

Spec == Init /\ [][Next]_vars

\* The script is sequential: whenever a statement can run, it runs.  The
\* client and the user owe nothing.
FairSpec == Spec /\ WF_vars(Step)

TypeOK ==
    /\ pc \in SetupPcs \cup LoopPcs \cup EndPcs \cup {"except", "finally"}
    /\ arduino \in {"unopened", "open", "closed"}
    /\ server_socket \in {"none", "created", "bound", "listening", "closed"}
    /\ conn \in {"none", "open", "closed"}
    /\ clientClosed \in BOOLEAN
    /\ midLine \in BOOLEAN
    /\ lastBlank \in BOOLEAN
    /\ readParity \in {0, 1}
    /\ Len(owed) <= MaxLines
    /\ Len(whole) = Len(owed)

\* ------------------------------------------------------------ properties
IsPrefix(s, t) == Len(s) <= Len(t) /\ \A i \in 1..Len(s) : s[i] = t[i]

BothClosed == arduino = "closed" /\ server_socket = "closed"

\* the forwarding loop has been entered: accept() returned a connection
LoopEntered == conn # "none"

\* C1 as stated: when the process has ended and no write failed, the writes
\* are exactly the frames of all the non-empty lines read, none dropped.
C1_ExactlyAllLines ==
    (pc \in EndPcs /\ failed = <<>>) => sent = owed

\* C1 amended: at every moment the writes are a prefix of the frames of the
\* non-empty lines read, in order, each the stripped line plus '\n', lacking
\* at most the last line read; whenever the loop is about to read, every
\* line read so far has been written.
C1_PrefixEqualAtRead ==
    /\ IsPrefix(sent, owed)
    /\ Len(owed) - Len(sent) <= 1
    /\ pc = "read" => sent = owed

C1_Witness ==
    /\ pc = "read"
    /\ sent = <<<<97, 32, 97, 10>>, <<97, 10>>>>
    /\ failed = <<>>

\* C2: when the process has ended, no resource it opened is still open.
C2_AllClosedAtExit ==
    pc \in EndPcs =>
        /\ arduino # "open"
        /\ server_socket \in {"none", "closed"}
        /\ conn # "open"

DisconnectHandled ==
    cause \in DisconnectErrors =>
        /\ clientClosed
        /\ failed # <<>>
        /\ conn = "closed"
        /\ pc \in EndPcs => (pc = "done" /\ exc = "none" /\ BothClosed)

\* C3 as stated: once the client has closed during the forwarding loop, the
\* bridge eventually leaves the loop; and a disconnect ends without an
\* exception in flight and with both handles closed.
C3_EventuallyLeaves ==
    /\ (clientClosed /\ pc \in LoopPcs) ~> (pc \notin LoopPcs)
    /\ []DisconnectHandled

\* C3 amended: the bridge notices the closed client only when a later write
\* fails; once a write has failed with a reset or a broken pipe, the process
\* eventually ends normally, no exception in flight, both handles closed.
C3_LeavesOnFailedWrite ==
    /\ []DisconnectHandled
    /\ (cause \in DisconnectErrors) ~> (pc = "done" /\ exc = "none" /\ BothClosed)

C3_Witness ==
    /\ pc = "done"
    /\ clientClosed
    /\ cause = "BrokenPipeError"
    /\ Len(sent) = 1

\* C4: once the forwarding loop was entered, the process never ends with
\* the serial source or the listening socket not closed.
C4_ClosedAfterLoop ==
    (LoopEntered /\ pc \in EndPcs) => BothClosed

C4_Witness ==
    /\ pc = "crashed"
    /\ cause = "UnicodeDecodeError"
    /\ BothClosed

\* the serial open was attempted and did not give a handle
OpenFailed == openAttempts >= 1 /\ arduino = "unopened"

\* C5: after a failed serial open there is no socket, no accept, no client
\* write, no second open, and the script is only on its way out.
C5_NoListenerAfterOpenFailure ==
    OpenFailed =>
        /\ server_socket = "none"
        /\ acceptCalls = 0
        /\ conn = "none"
        /\ sent = <<>>
        /\ failed = <<>>
        /\ openAttempts = 1
        /\ pc \in {"open_failed", "exited", "crashed"}

C5_Witness ==
    /\ pc = "exited"
    /\ OpenFailed

\* a readline() call returned, without raising, only whitespace or nothing
BlankReadStep ==
    /\ pc = "read"
    /\ readParity' # readParity
    /\ exc' = "none"
    /\ lastBlank'

\* C6: a read of nothing or of whitespace only writes nothing, echoes
\* nothing and changes no resource, the loop goes on to its idle delay; no
\* write is ever attempted for such a read and no empty frame is ever sent.
C6_BlankReadWritesNothing ==
    /\ [][BlankReadStep =>
            /\ pc' = "sleep"
            /\ UNCHANGED <<sent, failed, echoes, resources, owed>>]_vars
    /\ [](pc \in {"send", "echo"} => ~lastBlank)
    /\ [](\A i \in 1..Len(sent) : Len(sent[i]) >= 2)

C6_Witness ==
    /\ pc = "sleep"
    /\ lastBlank
    /\ midLine
    /\ Len(sent) = 1

Phase == IF pc \in SetupPcs THEN 0 ELSE IF pc \in LoopPcs THEN 1 ELSE 2

\* C7: the phases only advance (awaiting connection, forwarding, closed);
\* accept is called at most once; a connection is open only while
\* forwarding; after the loop no accept, serial read or client write occurs.
C7_PhasesOnlyAdvance ==
    /\ [][Phase' >= Phase]_vars
    /\ [](acceptCalls <= 1)
    /\ [](conn = "open" => Phase = 1)
    /\ [][Phase = 2 => UNCHANGED <<acceptCalls, readParity, sent, failed>>]_vars

C7_Witness ==
    /\ pc = "done"
    /\ acceptCalls = 1
    /\ Len(sent) = 2

C9_OnlyWholeLines ==
    \A i \in 1..Len(sent) : whole[i]

\* the echoed line is the text of the frame without its final line feed
EchoOf(l, frame) ==
    /\ Len(frame) = Len(l) + 1
    /\ frame[Len(frame)] = 10
    /\ \A j \in 1..Len(l) : CharOf[frame[j]] = l[j]

EchoesFollowWrites ==
    /\ Len(echoes) <= Len(sent)
    /\ Len(sent) <= Len(echoes) + 1
    /\ \A i \in 1..Len(echoes) : EchoOf(echoes[i], sent[i])
    /\ failed # <<>> => (Len(sent) = Len(owed) - 1 /\ Len(echoes) = Len(sent))

\* C10 as stated: the echoes follow the writes, and every line written is
\* echoed, so when the process has ended there is one echo per write.
C10_EveryWriteEchoed ==
    /\ EchoesFollowWrites
    /\ pc \in EndPcs \cup {"read"} => Len(echoes) = Len(sent)

\* C10 amended: the echoes are a prefix of the lines written, at most one
\* behind; a line whose write failed is not echoed; whenever the loop is
\* about to read, every line written has been echoed once.
C10_EchoedBeforeNextRead ==
    /\ EchoesFollowWrites
    /\ pc \in {"read", "send", "sleep"} => Len(echoes) = Len(sent)

C10_Witness ==
    /\ pc = "read"
    /\ Len(echoes) = 2
    /\ echoes[1] # echoes[2]

====
